---- MODULE Spec2Model ----
(***************************************************************************)
(* Model of the cross-chain bridge event listener of src/script.py:        *)
(* EventScanner (range planning, log fetch, scan cursor),                  *)
(* CrossChainRelayer (delivery), and BridgeOrchestrator (dedup set, main   *)
(* loop, recovery and shutdown).                                           *)
(***************************************************************************)
EXTENDS Integers, Sequences, FiniteSets, TLC

\* ------------------------------------------------------------------ bounds
\* Number of events the bridge contract has emitted on the source chain.
NumEvents == 3
\* Heights the node reports reach MaxChunks full chunks past block 112.
MaxChunks == 2
\* ... plus 0..MaxExtra further blocks.
MaxExtra == 0

\* ------------------------------------------------------- program constants
\* script.py:157  "if to_block - from_block > 5000"
CHUNK_THRESHOLD == 5000
\* script.py:158  "to_block = from_block + 4999"
CHUNK_SPAN == 4999
\* script.py:261  "time.sleep(30)"
RECOVERY_SLEEP == 30
\* script.py:34   default of POLL_INTERVAL_SECONDS
POLL_INTERVAL_SECONDS == 15

\* ------------------------------------------------------------ environment
\* Values of START_BLOCK / BLOCK_CONFIRMATIONS the process is started with.
StartBlocks == {0, 100}
Confirmations == {12, 25}
\* Block numbers w3.eth.block_number may report in a cycle.
Heights == {120} \cup {112 + (k * CHUNK_THRESHOLD) + d : k \in 0..MaxChunks, d \in 0..MaxExtra}
\* What the destination answers to the POST of relay_event_data.
Responses == {"ok_json", "ok_not_json", "http_error", "transport_error"}

Events == 1..NumEvents
\* Events 1 and 2 are emitted by the same transaction, 3 and 4 by the next.
EventTx(e) == (e + 1) \div 2
Txs == {EventTx(e) : e \in Events}
None == <<>>
\* latest_block when get_latest_block_number raised (no value was assigned).
Unread == 0 - 1

VARIABLES
    START_BLOCK,          \* Config.START_BLOCK
    BLOCK_CONFIRMATIONS,  \* Config.BLOCK_CONFIRMATIONS (EventScanner.confirmations)
    pc,                   \* position of the process
    exit_code,            \* exit status once pc = "terminated", else None
    last_scanned_block,   \* EventScanner.last_scanned_block
    processed_txs,        \* BridgeOrchestrator.processed_txs
    latest_block,         \* latest_block read by _get_scan_range in this cycle, Unread if the read failed
    scan_range,           \* scan_range of the running scan(), None if there is none
    logs,                 \* logs returned by get_logs in this cycle
    idx,                  \* 1-based position in logs of the event last yielded
    result,               \* how the scan of the latest cycle went
    sleeping,             \* seconds of the time.sleep call the process is in, 0 if in none
    init_failed,          \* history: an exception was raised in BridgeOrchestrator.__init__
    done,                 \* history: events of this cycle for which _process_event has returned
    yielded,              \* history: events yielded to run() in the latest cycle
    outcome,              \* history: outcome of the latest _process_event of each event
    successes,            \* history: number of True returns of relay_event_data per tx hash (saturates at 2)
    before,               \* history: <<result, latest_block, scan_range>> of the cycle before the latest if that one failed, its tag alone if it was aborted
    steady,               \* history: every cycle so far read the same height and none failed or aborted
    trace                 \* history: widths of the windows completed while steady

vars == <<START_BLOCK, BLOCK_CONFIRMATIONS, pc, exit_code, last_scanned_block,
          processed_txs, latest_block, scan_range, logs, idx, result, yielded,
          outcome, successes, before, steady, trace, sleeping, init_failed, done>>

config == <<START_BLOCK, BLOCK_CONFIRMATIONS>>

\* ------------------------------------------------------------- pure parts
\* HexBytes.hex() of event['transactionHash'] (script.py:223).
hex(tx) == <<"0x", tx>>

\* Block in which event e was emitted: the first transaction is in block
\* START_BLOCK + 1, the next ones follow 8 blocks apart.
EventBlock(e) == START_BLOCK + (8 * EventTx(e)) - 7

\* Variant of _get_scan_range that forgets the confirmation depth.
_get_scan_range_unconfirmed(last_scanned, latest, confirmations) ==
    LET from_block == last_scanned + 1
        to_block == latest
    IN  IF from_block > to_block THEN None
        ELSE IF to_block - from_block > CHUNK_THRESHOLD
             THEN <<from_block, from_block + CHUNK_SPAN>>
             ELSE <<from_block, to_block>>

\* Variant of _get_scan_range without the "no new confirmed blocks" test.
_get_scan_range_unguarded(last_scanned, latest, confirmations) ==
    LET from_block == last_scanned + 1
        to_block == latest - confirmations
    IN  IF to_block - from_block > CHUNK_THRESHOLD
        THEN <<from_block, from_block + CHUNK_SPAN>>
        ELSE <<from_block, to_block>>

\* Variant of _get_scan_range that starts at the last scanned block itself.
_get_scan_range_overlapping(last_scanned, latest, confirmations) ==
    LET from_block == last_scanned
        to_block == latest - confirmations
    IN  IF from_block > to_block THEN None
        ELSE IF to_block - from_block > CHUNK_THRESHOLD
             THEN <<from_block, from_block + CHUNK_SPAN>>
             ELSE <<from_block, to_block>>

\* EventScanner._get_scan_range once latest_block is known (script.py:149-160).
_get_scan_range(last_scanned, latest, confirmations) ==
    LET from_block == last_scanned + 1
        to_block == latest - confirmations
    IN  IF from_block > to_block THEN None
        ELSE IF to_block - from_block > CHUNK_THRESHOLD
             THEN <<from_block, from_block + CHUNK_SPAN>>
             ELSE <<from_block, to_block>>

\* contract.events[...].get_logs(fromBlock, toBlock): the events of the
\* blocks from_block..to_block in chain order (script.py:176).
RECURSIVE get_logs_from(_, _, _)
get_logs_from(e, from_block, to_block) ==
    IF e > NumEvents THEN <<>>
    ELSE IF from_block <= EventBlock(e) /\ EventBlock(e) <= to_block
         THEN <<e>> \o get_logs_from(e + 1, from_block, to_block)
         ELSE get_logs_from(e + 1, from_block, to_block)
get_logs(from_block, to_block) == get_logs_from(1, from_block, to_block)

\* CrossChainRelayer.relay_event_data (script.py:114-121): raise_for_status
\* raises HTTPError on 4xx/5xx, response.json() raises JSONDecodeError on a
\* body that is not JSON; both are RequestException and give False.
relay_event_data(response) == response = "ok_json"

\* Variant of already_processed in which the duplicate check is missing.
already_processed_never(tx_hash, processed) == FALSE

\* The duplicate check of _process_event (script.py:226).
already_processed(tx_hash, processed) == tx_hash \in processed

\* Variant of mark_processed that forgets to record a relayed hash.
mark_processed_never(tx_hash, relayed, processed) == processed

\* Variant of mark_processed that records the hash whatever the relayer returned.
mark_processed_always(tx_hash, relayed, processed) == processed \cup {tx_hash}

\* processed_txs after relay_event_data returned `relayed` (script.py:239-242).
mark_processed(tx_hash, relayed, processed) ==
    IF relayed THEN processed \cup {tx_hash} ELSE processed

\* last_scanned_block after the generator ran past its last yield (script.py:186).
scan_completed(to_block) == to_block

Inc2(n) == IF n < 2 THEN n + 1 ELSE 2

\* ------------------------------------------------------------------- Init
Init ==
    /\ START_BLOCK \in StartBlocks
    /\ BLOCK_CONFIRMATIONS \in Confirmations
    /\ pc = "init"
    /\ exit_code = None
    /\ last_scanned_block = START_BLOCK - 1
    /\ processed_txs = {}
    /\ latest_block = Unread
    /\ scan_range = None
    /\ logs = <<>>
    /\ idx = 0
    /\ result = "none"
    /\ yielded = <<>>
    /\ outcome = [e \in Events |-> "none"]
    /\ successes = [t \in Txs |-> 0]
    /\ before = <<"none", Unread, None>>
    /\ steady = TRUE
    /\ trace = <<>>
    /\ sleeping = 0
    /\ init_failed = FALSE
    /\ done = 0

scanner == <<last_scanned_block, latest_block, scan_range, logs, idx, result, yielded>>
history == <<outcome, successes, before, steady, trace>>

\* ------------------------------------------------ BridgeOrchestrator.__init__
\* script.py:202-216 without an exception: run() is entered.
InitOk ==
    /\ pc = "init"
    /\ pc' = "cycle"
    /\ UNCHANGED <<config, exit_code, processed_txs, scanner, history, sleeping, init_failed, done>>

\* Variant of InitFails that logs the failure and lets run() start.
InitFails_partial_start ==
    /\ pc = "init"
    /\ pc' = "cycle"
    /\ init_failed' = TRUE
    /\ UNCHANGED <<config, exit_code, processed_txs, scanner, history, sleeping, done>>

\* script.py:217-219: ValueError / ConnectionError -> exit(1); any other
\* exception leaves __init__ uncaught, which also ends the interpreter with
\* status 1.  run() is never entered.
InitFails ==
    /\ pc = "init"
    /\ pc' = "terminated"
    /\ exit_code' = 1
    /\ init_failed' = TRUE
    /\ UNCHANGED <<config, processed_txs, scanner, history, sleeping, done>>

\* ------------------------------------------------------ EventScanner.scan
Failed == {"height_failed", "fetch_failed"}
Forgotten == <<"none", Unread, None>>
\* What the next cycle remembers of the one that just ended.
Remember ==
    IF result \in Failed THEN <<result, latest_block, scan_range>>
    ELSE IF result = "aborted" THEN <<"aborted", Unread, None>>
    ELSE Forgotten
\* A cycle breaks the steady run.
Unsteady == steady' = FALSE /\ trace' = <<>>

\* Bookkeeping of a cycle that read height h without failing.
SteadyWith(h, widths) ==
    IF steady /\ (result = "none" \/ latest_block = h)
    THEN steady' = TRUE /\ trace' = trace \o widths
    ELSE Unsteady

\* script.py:143-147 and 167-169: the height query raises.
ScanHeightFails ==
    /\ pc = "cycle"
    /\ before' = Remember
    /\ latest_block' = Unread
    /\ scan_range' = None
    /\ logs' = <<>>
    /\ idx' = 0
    /\ yielded' = <<>>
    /\ result' = "height_failed"
    /\ pc' = "sleep"
    /\ sleeping' = POLL_INTERVAL_SECONDS
    /\ done' = 0
    /\ Unsteady
    /\ UNCHANGED <<config, exit_code, last_scanned_block, processed_txs, outcome, successes, init_failed>>

\* script.py:152-154 and 167-169: no confirmed block beyond the cursor.
ScanNothingNew ==
    /\ pc = "cycle"
    /\ before' = Remember
    /\ \E h \in Heights :
        /\ _get_scan_range(last_scanned_block, h, BLOCK_CONFIRMATIONS) = None
        /\ latest_block' = h
        /\ SteadyWith(h, <<>>)
    /\ scan_range' = None
    /\ logs' = <<>>
    /\ idx' = 0
    /\ yielded' = <<>>
    /\ result' = "nothing_new"
    /\ pc' = "sleep"
    /\ sleeping' = POLL_INTERVAL_SECONDS
    /\ done' = 0
    /\ UNCHANGED <<config, exit_code, last_scanned_block, processed_txs, outcome, successes, init_failed>>

\* Variant of ScanFetchFails that moves the cursor past the window whose
\* fetch failed.
ScanFetchFails_advancing ==
    /\ pc = "cycle"
    /\ before' = Remember
    /\ \E h \in Heights :
        /\ _get_scan_range(last_scanned_block, h, BLOCK_CONFIRMATIONS) # None
        /\ latest_block' = h
        /\ scan_range' = _get_scan_range(last_scanned_block, h, BLOCK_CONFIRMATIONS)
        /\ last_scanned_block' = _get_scan_range(last_scanned_block, h, BLOCK_CONFIRMATIONS)[2]
    /\ logs' = <<>>
    /\ idx' = 0
    /\ yielded' = <<>>
    /\ result' = "fetch_failed"
    /\ pc' = "sleep"
    /\ sleeping' = POLL_INTERVAL_SECONDS
    /\ done' = 0
    /\ Unsteady
    /\ UNCHANGED <<config, exit_code, processed_txs, outcome, successes, init_failed>>

\* script.py:174-176 and 188-190: get_logs raises; caught, nothing yielded.
ScanFetchFails ==
    /\ pc = "cycle"
    /\ before' = Remember
    /\ \E h \in Heights :
        /\ _get_scan_range(last_scanned_block, h, BLOCK_CONFIRMATIONS) # None
        /\ latest_block' = h
        /\ scan_range' = _get_scan_range(last_scanned_block, h, BLOCK_CONFIRMATIONS)
    /\ logs' = <<>>
    /\ idx' = 0
    /\ yielded' = <<>>
    /\ result' = "fetch_failed"
    /\ pc' = "sleep"
    /\ sleeping' = POLL_INTERVAL_SECONDS
    /\ done' = 0
    /\ Unsteady
    /\ UNCHANGED <<config, exit_code, last_scanned_block, processed_txs, outcome, successes, init_failed>>

\* Variant of ScanFetchOk that moves the cursor as soon as get_logs has
\* returned, before the events are handed out.
ScanFetchOk_advancing_first ==
    /\ pc = "cycle"
    /\ before' = Remember
    /\ \E h \in Heights :
        LET r == _get_scan_range(last_scanned_block, h, BLOCK_CONFIRMATIONS)
            ls == get_logs(r[1], r[2])
        IN  /\ r # None
            /\ latest_block' = h
            /\ scan_range' = r
            /\ logs' = ls
            /\ last_scanned_block' = scan_completed(r[2])
            /\ IF ls = <<>>
               THEN /\ idx' = 0
                    /\ yielded' = <<>>
                    /\ result' = "completed"
                    /\ pc' = "sleep"
                    /\ sleeping' = POLL_INTERVAL_SECONDS
                    /\ SteadyWith(h, <<r[2] - r[1] + 1>>)
               ELSE /\ idx' = 1
                    /\ yielded' = <<ls[1]>>
                    /\ result' = "yielding"
                    /\ pc' = "process"
                    /\ sleeping' = 0
                    /\ SteadyWith(h, <<>>)
    /\ done' = 0
    /\ UNCHANGED <<config, exit_code, processed_txs, outcome, successes, init_failed>>

\* script.py:176-186: get_logs returns.  With no log the generator runs to
\* its end and advances the cursor; otherwise it yields the first event.
ScanFetchOk ==
    /\ pc = "cycle"
    /\ before' = Remember
    /\ \E h \in Heights :
        LET r == _get_scan_range(last_scanned_block, h, BLOCK_CONFIRMATIONS)
            ls == get_logs(r[1], r[2])
        IN  /\ r # None
            /\ latest_block' = h
            /\ scan_range' = r
            /\ logs' = ls
            /\ IF ls = <<>>
               THEN /\ idx' = 0
                    /\ yielded' = <<>>
                    /\ last_scanned_block' = scan_completed(r[2])
                    /\ result' = "completed"
                    /\ pc' = "sleep"
                    /\ sleeping' = POLL_INTERVAL_SECONDS
                    /\ SteadyWith(h, <<r[2] - r[1] + 1>>)
               ELSE /\ idx' = 1
                    /\ yielded' = <<ls[1]>>
                    /\ last_scanned_block' = last_scanned_block
                    /\ result' = "yielding"
                    /\ pc' = "process"
                    /\ sleeping' = 0
                    /\ SteadyWith(h, <<>>)
    /\ done' = 0
    /\ UNCHANGED <<config, exit_code, processed_txs, outcome, successes, init_failed>>

\* Variant of Resume that moves the cursor before the remaining events are
\* yielded.
Resume_advancing_early ==
    IF idx < Len(logs)
    THEN /\ idx' = idx + 1
         /\ yielded' = Append(yielded, logs[idx + 1])
         /\ pc' = "process"
         /\ last_scanned_block' = scan_completed(scan_range[2])
         /\ UNCHANGED <<result, steady, trace, sleeping>>
    ELSE /\ idx' = idx
         /\ yielded' = yielded
         /\ last_scanned_block' = scan_completed(scan_range[2])
         /\ result' = "completed"
         /\ pc' = "sleep"
         /\ sleeping' = POLL_INTERVAL_SECONDS
         /\ steady' = steady
         /\ trace' = IF steady THEN Append(trace, scan_range[2] - scan_range[1] + 1) ELSE trace

\* The generator is resumed after the event at idx was processed
\* (script.py:180-186): the next event is yielded, or the loop ends and the
\* cursor moves to to_block.
Resume ==
    IF idx < Len(logs)
    THEN /\ idx' = idx + 1
         /\ yielded' = Append(yielded, logs[idx + 1])
         /\ pc' = "process"
         /\ UNCHANGED <<last_scanned_block, result, steady, trace, sleeping>>
    ELSE /\ idx' = idx
         /\ yielded' = yielded
         /\ last_scanned_block' = scan_completed(scan_range[2])
         /\ result' = "completed"
         /\ pc' = "sleep"
         /\ sleeping' = POLL_INTERVAL_SECONDS
         /\ steady' = steady
         /\ trace' = IF steady THEN Append(trace, scan_range[2] - scan_range[1] + 1) ELSE trace

\* ------------------------------------------ BridgeOrchestrator._process_event
current == logs[idx]
tx_hash == hex(EventTx(current))

\* script.py:226-228: the hash is in processed_txs; the event is skipped.
ProcessSkip ==
    /\ pc = "process"
    /\ already_processed(tx_hash, processed_txs)
    /\ outcome' = [outcome EXCEPT ![current] = "AlreadyProcessed"]
    /\ done' = done + 1
    /\ Resume
    /\ UNCHANGED <<config, exit_code, processed_txs, latest_block, scan_range, logs, successes, before, init_failed>>

\* script.py:230-239: the chain id is read and the POST is sent.
ProcessCall ==
    /\ pc = "process"
    /\ ~already_processed(tx_hash, processed_txs)
    /\ pc' = "relaying"
    /\ UNCHANGED <<config, exit_code, processed_txs, scanner, history, sleeping, init_failed, done>>

\* Variant of ProcessRaises in which the exception ends the process.
ProcessRaises_fatal ==
    /\ pc = "process"
    /\ ~already_processed(tx_hash, processed_txs)
    /\ outcome' = [outcome EXCEPT ![current] = "Raised"]
    /\ result' = "aborted"
    /\ pc' = "terminated"
    /\ exit_code' = 1
    /\ Unsteady
    /\ UNCHANGED <<config, processed_txs, last_scanned_block, latest_block,
                   scan_range, logs, idx, yielded, successes, before, sleeping,
                   init_failed, done>>

\* Variant of ProcessRaises in which the abandoned generator still moves
\* the cursor to to_block.
ProcessRaises_advancing ==
    /\ pc = "process"
    /\ ~already_processed(tx_hash, processed_txs)
    /\ outcome' = [outcome EXCEPT ![current] = "Raised"]
    /\ result' = "aborted"
    /\ pc' = "recover"
    /\ sleeping' = RECOVERY_SLEEP
    /\ last_scanned_block' = scan_completed(scan_range[2])
    /\ Unsteady
    /\ UNCHANGED <<config, exit_code, processed_txs, latest_block,
                   scan_range, logs, idx, yielded, successes, before, init_failed, done>>

\* script.py:236: w3.eth.chain_id is an RPC request; when it raises, the
\* exception leaves _process_event and the for loop, the generator is
\* dropped before script.py:186, and run() catches it at script.py:258.
ProcessRaises ==
    /\ pc = "process"
    /\ ~already_processed(tx_hash, processed_txs)
    /\ outcome' = [outcome EXCEPT ![current] = "Raised"]
    /\ result' = "aborted"
    /\ pc' = "recover"
    /\ sleeping' = RECOVERY_SLEEP
    /\ Unsteady
    /\ UNCHANGED <<config, exit_code, processed_txs, last_scanned_block, latest_block,
                   scan_range, logs, idx, yielded, successes, before, init_failed, done>>

\* script.py:115-121 and 239-242: the POST is answered (or fails), the
\* hash is recorded on True, and the generator is resumed.
RelayReturns ==
    /\ pc = "relaying"
    /\ \E response \in Responses :
        LET relayed == relay_event_data(response)
        IN  /\ processed_txs' = mark_processed(tx_hash, relayed, processed_txs)
            /\ outcome' = [outcome EXCEPT ![current] = IF relayed THEN "Delivered" ELSE "Failed"]
            /\ successes' = IF relayed
                            THEN [successes EXCEPT ![EventTx(current)] = Inc2(@)]
                            ELSE successes
    /\ done' = done + 1
    /\ Resume
    /\ UNCHANGED <<config, exit_code, latest_block, scan_range, logs, before, init_failed>>

\* -------------------------------------------------- BridgeOrchestrator.run
\* script.py:252-253 then 247: the poll sleep ends, next cycle.
PollSleepEnds ==
    /\ pc = "sleep"
    /\ pc' = "cycle"
    /\ sleeping' = 0
    /\ UNCHANGED <<config, exit_code, processed_txs, scanner, history, init_failed, done>>

\* script.py:258-261 then 247: the cooldown ends, next cycle.
CooldownEnds ==
    /\ pc = "recover"
    /\ pc' = "cycle"
    /\ sleeping' = 0
    /\ UNCHANGED <<config, exit_code, processed_txs, scanner, history, init_failed, done>>

\* script.py:255-257: KeyboardInterrupt raised inside the try block (in
\* scan, between or during event processing, in the poll sleep); the loop
\* breaks and the interpreter ends with status 0.
InterruptInTry ==
    /\ pc \in {"cycle", "process", "relaying", "sleep"}
    /\ pc' = "terminated"
    /\ exit_code' = 0
    /\ sleeping' = 0
    /\ UNCHANGED <<config, processed_txs, scanner, history, init_failed, done>>

\* script.py:261: KeyboardInterrupt raised inside the `except Exception`
\* handler is not caught by the sibling handler of script.py:255; it leaves
\* run() uncaught and the interpreter ends with the SIGINT status.
InterruptInCooldown ==
    /\ pc = "recover"
    /\ pc' = "terminated"
    /\ exit_code' = 130
    /\ sleeping' = 0
    /\ UNCHANGED <<config, processed_txs, scanner, history, init_failed, done>>

Next ==
    \/ InitOk
    \/ InitFails
    \/ ScanHeightFails
    \/ ScanNothingNew
    \/ ScanFetchFails
    \/ ScanFetchOk
    \/ ProcessSkip
    \/ ProcessCall
    \/ ProcessRaises
    \/ RelayReturns
    \/ PollSleepEnds
    \/ CooldownEnds
    \/ InterruptInTry
    \/ InterruptInCooldown

Spec == Init /\ [][Next]_vars

\* The steps the process takes by itself: an RPC or HTTP call returns or
\* times out, a sleep ends.  The interrupt signal is not among them.
Progress ==
    \/ InitOk
    \/ ScanHeightFails
    \/ ScanNothingNew
    \/ ScanFetchFails
    \/ ScanFetchOk
    \/ ProcessSkip
    \/ ProcessCall
    \/ ProcessRaises
    \/ RelayReturns
    \/ PollSleepEnds
    \/ CooldownEnds

\* The loop of run() never stops by itself, and the ledger node keeps
\* answering: a cycle that can fetch a window does so again and again.
FairSpec == Init /\ [][Next]_vars /\ WF_vars(Progress) /\ SF_vars(ScanFetchOk)

TypeOK ==
    /\ pc \in {"init", "cycle", "process", "relaying", "sleep", "recover", "terminated"}
    /\ processed_txs \subseteq {hex(t) : t \in Txs}
    /\ idx \in 0..Len(logs)

\* ================================================================ claims
Range(s) == {s[i] : i \in 1..Len(s)}
Planned == scan_range # None
from_block == scan_range[1]
to_block == scan_range[2]

\* C1: relay_event_data returns True at most once for any transaction hash
\* during the life of the process, whatever is fetched again and however
\* many events carry the hash.
C1_AtMostOneSuccess == \A t \in Txs : successes[t] <= 1

\* The first transaction was delivered once; both of its events were then
\* offered again (the window was fetched again after an aborted cycle) and
\* skipped.
C1_Witness ==
    /\ successes[EventTx(1)] = 1
    /\ outcome[1] = "AlreadyProcessed"
    /\ outcome[2] = "AlreadyProcessed"

\* C2: an event whose delivery failed and whose hash is not in
\* processed_txs is yielded to _process_event again by a later cycle
\* (unless the process is shut down first).
C2_FailedEventIsOfferedAgain ==
    \A e \in Events :
        (pc = "sleep" /\ outcome[e] = "Failed" /\ hex(EventTx(e)) \notin processed_txs)
            ~> \/ pc = "process" /\ current = e
               \/ hex(EventTx(e)) \in processed_txs
               \/ pc = "terminated"

\* C3: a planned window holds at most 5000 blocks.
C3_WindowWithinChunkLimit == Planned => to_block - from_block + 1 <= 5000

\* C4: with the cursor at START_BLOCK - 1, the confirmed head 10001 blocks
\* ahead, the height unchanged and no failure, the backlog is scanned in
\* three cycles of 5000, 5000 and 1 blocks.
C4_BacklogInThreeCycles ==
    (/\ steady
     /\ latest_block # Unread
     /\ (latest_block - BLOCK_CONFIRMATIONS) - (START_BLOCK - 1) = 10001
     /\ last_scanned_block = latest_block - BLOCK_CONFIRMATIONS)
        => trace = <<5000, 5000, 1>>

\* C5: a cycle whose height query or log fetch fails yields nothing and
\* leaves last_scanned_block as it was; the next cycle plans from the same
\* from_block, and plans the same window if it reads the same height.
C5_FailedCycleIsRetried ==
    [][ /\ result' \in Failed /\ pc = "cycle"
            => yielded' = <<>> /\ last_scanned_block' = last_scanned_block
        /\ result \in Failed /\ pc # "cycle"
            => last_scanned_block' = last_scanned_block
        /\ result \in Failed /\ pc = "cycle" /\ scan_range' # None
            => /\ scan_range'[1] = last_scanned_block + 1
               /\ result = "fetch_failed"
                    => /\ scan_range'[1] = scan_range[1]
                       /\ latest_block' = latest_block => scan_range' = scan_range
      ]_vars

\* The fetch of a window failed and the next cycle, reading the same
\* height, fetched the same window.
C5_Witness ==
    /\ before[1] = "fetch_failed"
    /\ before[2] = latest_block
    /\ before[3] = scan_range
    /\ result = "completed"
    /\ Len(logs) > 0

\* C6: after a successful fetch the events are yielded in the order
\* get_logs returned them, last_scanned_block stays below the window while
\* they are, and becomes to_block once the last one was handed out and
\* processed, or at once when no log was returned.
C6_YieldThenAdvance ==
    /\ [](/\ pc \in {"process", "relaying"}
              => /\ last_scanned_block = from_block - 1
                 /\ logs = get_logs(from_block, to_block)
                 /\ idx >= 1
                 /\ yielded = SubSeq(logs, 1, idx)
          /\ result = "completed"
              => /\ logs = get_logs(from_block, to_block)
                 /\ yielded = logs
                 /\ last_scanned_block = to_block)
    /\ [][last_scanned_block' # last_scanned_block
            => /\ result' = "completed"
               /\ yielded' = logs'
               /\ last_scanned_block' = scan_range'[2]]_vars

\* A window with three events was completed: all three were yielded in
\* order and the cursor is at to_block.
C6_Witness ==
    /\ result = "completed"
    /\ yielded = <<1, 2, 3>>
    /\ last_scanned_block = to_block
    /\ outcome[3] # "none"

\* C7: a planned window satisfies from_block <= to_block <=
\* latest_block - confirmations for the height read in the same cycle.
C7_ReorgSafety ==
    Planned => /\ from_block <= to_block
               /\ to_block <= latest_block - BLOCK_CONFIRMATIONS

\* A window that reaches the newest confirmed block was planned.
C7_Witness ==
    /\ Planned
    /\ to_block = latest_block - BLOCK_CONFIRMATIONS
    /\ from_block < to_block

\* The plan of spec section 4.1.
plan(lastScanned, currentHeight, confirmations, chunkLimit) ==
    LET from == lastScanned + 1
        safeTo == currentHeight - confirmations
    IN  IF from > safeTo THEN None
        ELSE <<from, IF safeTo < from + chunkLimit - 1 THEN safeTo ELSE from + chunkLimit - 1>>

\* C8: for every cursor, height and confirmation depth, _get_scan_range
\* returns the plan of section 4.1 with chunk limit 5000.
C8_PlannerMatchesReference ==
    pc = "cycle" =>
        \A h \in Heights :
            _get_scan_range(last_scanned_block, h, BLOCK_CONFIRMATIONS)
                = plan(last_scanned_block, h, BLOCK_CONFIRMATIONS, 5000)

\* C9: a hash is in processed_txs exactly if relay_event_data returned True
\* for it; the set never loses a hash; a failed delivery leaves it as it was.
C9_ProcessedIffDelivered ==
    /\ [](\A t \in Txs : hex(t) \in processed_txs <=> successes[t] >= 1)
    /\ [][processed_txs \subseteq processed_txs']_vars
    /\ [][pc = "relaying" /\ outcome'[current] = "Failed"
            => processed_txs' = processed_txs]_vars

\* One transaction is recorded, the delivery of another failed and left
\* its hash out of the set.
C9_Witness ==
    /\ hex(EventTx(1)) \in processed_txs
    /\ outcome[3] = "Failed"
    /\ hex(EventTx(3)) \notin processed_txs

\* A step of _process_event on the event last yielded.
Processing == pc = "process" /\ pc' # "terminated"

\* C10 as stated: processing an event issues a Delivery Client call
\* exactly when its hash is not in processed_txs.
C10_CallIffNotProcessed ==
    [][Processing => (pc' = "relaying" <=> tx_hash \notin processed_txs)]_vars

\* C10 amended: a call is issued only for a hash that is not in
\* processed_txs; an event whose hash is in the set is skipped without a
\* call; an event whose hash is not in the set (its earlier delivery having
\* failed or not) gets a call unless reading the chain id raises first,
\* which aborts the cycle.
C10_CallOnlyIfNotProcessed ==
    [][Processing =>
        /\ pc' = "relaying" => tx_hash \notin processed_txs
        /\ tx_hash \in processed_txs
            => /\ pc' # "relaying"
               /\ outcome'[current] = "AlreadyProcessed"
               /\ successes' = successes
               /\ processed_txs' = processed_txs
        /\ tx_hash \notin processed_txs
            => \/ pc' = "relaying"
               \/ pc' = "recover" /\ outcome'[current] = "Raised"
      ]_vars

\* An event whose delivery failed was offered again by a later cycle and
\* its delivery is being attempted again.
C10_Witness ==
    /\ pc = "relaying"
    /\ outcome[current] = "Failed"
    /\ tx_hash \notin processed_txs

\* C11: a cancellation signal never ends the process while a delivery
\* attempt is in flight; the attempt returns first.
C11_DeliveryNotInterrupted ==
    [][pc = "relaying" => pc' # "terminated"]_vars

\* C12: a cancellation signal received in the poll sleep or in the
\* cooldown sleep ends the process with exit status 0.
C12_InterruptedSleepExitsCleanly ==
    [][(pc \in {"sleep", "recover"} /\ pc' = "terminated") => exit_code' = 0]_vars

Handled == {"Delivered", "AlreadyProcessed", "Failed"}

\* C13: an exception that leaves _process_event never ends the process: it
\* starts the 30 second cooldown, and the cooldown is followed by the next
\* cycle unless a signal arrives; the same after an aborted cycle that
\* itself followed an aborted cycle.
C13_ErrorLeadsToCooldown ==
    /\ [][(pc = "process" /\ result' = "aborted")
            => /\ outcome'[current] = "Raised"
               /\ pc' = "recover"
               /\ sleeping' = RECOVERY_SLEEP
               /\ exit_code' = None]_vars
    /\ [][pc = "recover"
            => \/ pc' = "cycle" /\ exit_code' = None
               \/ pc' = "terminated" /\ exit_code' = 130]_vars
    /\ [](pc = "recover" => sleeping = 30 /\ result = "aborted")

\* Two cycles in a row were aborted by an exception and the loop is at the
\* top of the next cycle.
C13_Witness ==
    /\ pc = "cycle"
    /\ result = "aborted"
    /\ before[1] = "aborted"
    /\ exit_code = None

\* C14: last_scanned_block never decreases, whatever heights are reported,
\* and changes only when a window whose fetch succeeded has handed out all
\* its events.
C14_CursorMonotone ==
    [][/\ last_scanned_block' >= last_scanned_block
       /\ last_scanned_block' # last_scanned_block
            => /\ scan_range' # None
               /\ logs' = get_logs(scan_range'[1], scan_range'[2])
               /\ yielded' = logs'
               /\ result' = "completed"
               /\ last_scanned_block' = scan_range'[2]]_vars

\* The cursor has advanced and a later cycle read a height whose confirmed
\* head lies below it.
C14_Witness ==
    /\ last_scanned_block >= START_BLOCK
    /\ result = "nothing_new"
    /\ latest_block - BLOCK_CONFIRMATIONS < last_scanned_block

\* C15: within a cycle the events are processed one at a time in the order
\* received, the cursor moves only when _process_event has returned for
\* every event of the window, and a window is planned only at the top of
\* the loop, after the previous cycle has ended.
C15_CyclesSerialized ==
    /\ [](pc \in {"process", "relaying"}
            => /\ done = idx - 1
               /\ \A i \in 1..done : outcome[logs[i]] \in Handled
               /\ last_scanned_block < scan_range[1])
    /\ [][last_scanned_block' # last_scanned_block
            => /\ done' = Len(logs')
               /\ \A i \in 1..Len(logs') : outcome'[logs'[i]] \in Handled]_vars
    /\ [][<<latest_block, scan_range, logs>>' # <<latest_block, scan_range, logs>>
            => pc = "cycle"]_vars
    /\ [][(pc' = "cycle" /\ pc # "cycle") => pc \in {"init", "sleep", "recover"}]_vars

\* All three events of a window were processed in order, the last one
\* failing, and the cursor has moved to to_block.
C15_Witness ==
    /\ result = "completed"
    /\ logs = <<1, 2, 3>>
    /\ done = 3
    /\ outcome[3] = "Failed"
    /\ last_scanned_block = scan_range[2]
    /\ pc = "cycle"

\* C16: a failure in BridgeOrchestrator.__init__ ends the process with a
\* non-zero status before run() is entered: nothing was scanned or
\* delivered, and nothing is afterwards.
C16_InitFailureIsFatal ==
    /\ [](init_failed
            => /\ pc = "terminated"
               /\ exit_code # 0
               /\ result = "none"
               /\ last_scanned_block = START_BLOCK - 1
               /\ processed_txs = {}
               /\ \A e \in Events : outcome[e] = "none")
    /\ [][init_failed => UNCHANGED vars]_vars

\* The initialization failed and the process has ended with status 1.
C16_Witness ==
    /\ init_failed
    /\ pc = "terminated"
    /\ exit_code = 1

\* The destination answered the POST with a 2xx status.
SuccessStatus(response) == response \in {"ok_json", "ok_not_json"}

\* C17: relay_event_data returns True exactly when the destination
\* answered with a 2xx status, whatever the body.
C17_TrueIffSuccessStatus ==
    pc = "relaying" =>
        \A response \in Responses :
            relay_event_data(response) <=> SuccessStatus(response)

RECURSIVE Sum(_)
Sum(s) == IF s = <<>> THEN 0 ELSE s[1] + Sum(Tail(s))

\* C18: the completed windows tile the chain from START_BLOCK on: each
\* completed window starts right after the cursor, which is START_BLOCK - 1
\* at first and the to_block of the last completed window afterwards.
C18_WindowsTileTheChain ==
    /\ [](/\ last_scanned_block >= START_BLOCK - 1
          /\ steady => last_scanned_block = START_BLOCK - 1 + Sum(trace)
          /\ result \in {"yielding", "completed", "aborted"}
                => scan_range[1] >= START_BLOCK)
    /\ [][last_scanned_block' # last_scanned_block
            => /\ scan_range'[1] = last_scanned_block + 1
               /\ scan_range'[1] <= scan_range'[2]
               /\ last_scanned_block' = scan_range'[2]]_vars

\* Two windows were completed one after the other.
C18_Witness ==
    /\ steady
    /\ Len(trace) = 2
    /\ last_scanned_block = START_BLOCK - 1 + trace[1] + trace[2]
    /\ scan_range[1] = START_BLOCK + trace[1]

\* C19: when _process_event raises, the cursor stays where it was and the
\* events of the window stay ahead of it; the cycle after the cooldown
\* plans from the same from_block and a successful fetch returns the events
\* of the new window again; those whose hash is in processed_txs are
\* skipped without a call, the others are processed again.
C19_AbortedWindowIsRescanned ==
    /\ [][(pc = "process" /\ pc' = "recover")
            => /\ last_scanned_block' = last_scanned_block
               /\ result' = "aborted"]_vars
    /\ [](result = "aborted"
            => /\ last_scanned_block = scan_range[1] - 1
               /\ \A e \in Range(logs) : EventBlock(e) > last_scanned_block)
    /\ [][(result = "aborted" /\ pc = "cycle" /\ pc' # "terminated" /\ scan_range' # None)
            => /\ scan_range'[1] = scan_range[1]
               /\ result' # "fetch_failed"
                    => /\ \A e \in Range(logs) :
                            EventBlock(e) <= scan_range'[2] => e \in Range(logs')
                       /\ latest_block' = latest_block => logs' = logs
                       /\ logs' # <<>> => pc' = "process" /\ logs'[idx'] = logs'[1]]_vars
    /\ [][(before[1] = "aborted" /\ Processing)
            => IF tx_hash \in processed_txs
               THEN pc' # "relaying" /\ outcome'[current] = "AlreadyProcessed"
               ELSE pc' = "relaying" \/ pc' = "recover"]_vars

\* Processing the third event raised; after the cooldown the window was
\* fetched again, the first two events were skipped and the third is being
\* delivered.
C19_Witness ==
    /\ before[1] = "aborted"
    /\ pc = "relaying"
    /\ current = 3
    /\ outcome[3] = "Raised"
    /\ outcome[1] = "AlreadyProcessed"
    /\ outcome[2] = "AlreadyProcessed"
====
